---- MODULE Spec2Model ----
(***************************************************************************)
(* xcrun (xcode-tools/src/xcrun.rs): one run of main(), from the parsed    *)
(* command line and the loaded SDK configuration to the exit of the        *)
(* process.  Strings that the program formats or joins are sequences of    *)
(* tokens, so that format!() and PathBuf::join() are concatenations and    *)
(* not identities.  Option<T> is a sequence of length 0 (None) or 1        *)
(* (Some).                                                                 *)
(***************************************************************************)
EXTENDS Integers, Sequences, FiniteSets, TLC

VARIABLES
    sdks,       \* configuration.sdks: Vec<Sdk>, in file order
    fs,         \* the paths for which Path::exists() is true
    environ,    \* the ambient environment: variable name -> Option<String>
    xcrun,      \* the parsed command line (struct Xcrun)
    pc,         \* position of main()
    stdout,     \* what println! has written, in order
    stderr,     \* what eprintln! and the panic handler have written, in order
    exit_code,  \* Option<i32>: the exit status of the xcrun process
    find_sel,   \* find mode: None until the selection is evaluated, then
                \* Some(r), r the Option<index into sdks> iter().find() returned
    exec_sel,   \* execution mode: the same
    command,    \* Option<Command>: program, env overrides, args
    children    \* the subprocesses spawned so far, each with its state

vars == <<sdks, fs, environ, xcrun, pc, stdout, stderr, exit_code,
          find_sel, exec_sel, command, children>>

----------------------------------------------------------------------------
(* Bounds of the model *)

MaxSdks == 2
MaxArgs == 2
MaxExit == 2

----------------------------------------------------------------------------
(* Option<T> *)

None == <<>>
Some(x) == <<x>>
IsSome(o) == o # <<>>
IsNone(o) == o = <<>>
unwrap(o) == o[1]
unwrap_or_default(o) == IF IsSome(o) THEN o[1] ELSE <<>>

(* Exit status of a Rust process whose main thread panicked. *)
PANIC_EXIT == 101

----------------------------------------------------------------------------
(* Paths and the file system *)

BIN == <<"bin">>
USR_BIN == <<"usr", "/", "bin">>

(* PathBuf::join of a relative component: separator, then the component. *)
join(p, c) == p \o <<"/">> \o c

exists(p) == p \in fs

(* Mutant of find_tool: usr/bin/<tool> is probed first. *)
find_tool_usr_first(sdk, tool) ==
    LET tool_path == join(join(sdk.path, BIN), tool)
        tool_path2 == join(join(sdk.path, USR_BIN), tool)
    IN  IF exists(tool_path2) THEN Some(tool_path2)
        ELSE IF exists(tool_path) THEN Some(tool_path)
        ELSE None

(* find_tool: bin/<tool> is probed before usr/bin/<tool>. *)
find_tool(sdk, tool) ==
    LET tool_path == join(join(sdk.path, BIN), tool)
        tool_path2 == join(join(sdk.path, USR_BIN), tool)
    IN  IF exists(tool_path) THEN Some(tool_path)
        ELSE IF exists(tool_path2) THEN Some(tool_path2)
        ELSE None

(* Mutant of iter_find: the last element the closure accepts (rfind). *)
iter_find_last(matches) ==
    IF \E i \in 1..Len(matches) : matches[i]
    THEN Some(CHOOSE i \in 1..Len(matches) :
                 matches[i] /\ \A j \in (i + 1)..Len(matches) : ~matches[j])
    ELSE None

(* Iterator::find over configuration.sdks: the index of the first element  *)
(* the closure accepts.  matches[i] is the closure's value on sdks[i].      *)
iter_find(matches) ==
    IF \E i \in 1..Len(matches) : matches[i]
    THEN Some(CHOOSE i \in 1..Len(matches) :
                 matches[i] /\ \A j \in 1..(i - 1) : ~matches[j])
    ELSE None

(* Mutant of find_closure: a hinted SDK is accepted only if it holds the tool. *)
find_closure_requires_tool(sdk, tool) ==
    /\ IsSome(xcrun.sdk) => unwrap(xcrun.sdk) = sdk.name
    /\ exists(join(join(sdk.path, BIN), tool))
         \/ exists(join(join(sdk.path, USR_BIN), tool))

(* The closure of find mode's selection. *)
find_closure(sdk, tool) ==
    IF IsSome(xcrun.sdk)
    THEN unwrap(xcrun.sdk) = sdk.name
    ELSE exists(join(join(sdk.path, BIN), tool))
         \/ exists(join(join(sdk.path, USR_BIN), tool))

(* The closure of execution mode's selection. *)
exec_closure(sdk, tool) ==
    IF IsSome(xcrun.sdk)
    THEN unwrap(xcrun.sdk) = sdk.name
    ELSE exists(join(join(sdk.path, BIN), tool))
         \/ exists(join(join(sdk.path, USR_BIN), tool))

find_select(tool) == iter_find([i \in 1..Len(sdks) |-> find_closure(sdks[i], tool)])
exec_select(tool) == iter_find([i \in 1..Len(sdks) |-> exec_closure(sdks[i], tool)])

----------------------------------------------------------------------------
(* Output *)

Line(src, text) == [src |-> src, text |-> text]

(* for sdk in &configuration.sdks { println!("{}", sdk.<field>) }: one line *)
(* for each element of texts, the field's values in store order.            *)
println_each(src, texts) == [i \in 1..Len(texts) |-> Line(src, texts[i])]

tool_not_found(tool) ==
    [kind |-> "tool_not_found", text |-> <<"xcrun: error: tool not found: ">> \o tool]
panic_message(at) == [kind |-> "panic", text |-> <<at>>]

(* [String]::join(" ") *)
RECURSIVE join_words(_)
join_words(ws) ==
    IF ws = <<>> THEN <<>>
    ELSE IF Len(ws) = 1 THEN ws[1]
    ELSE ws[1] \o <<" ">> \o join_words(Tail(ws))

----------------------------------------------------------------------------
(* The inputs of a run *)

Sdk(name, path, version, target_triple) ==
    [name |-> name, path |-> path, version |-> version, target_triple |-> target_triple]

SdkPool ==
    { Sdk("macos", <<"/a">>, <<"14.0">>, <<"arm64-apple-macos">>),
      Sdk("macos", <<"/b">>, <<"13.0">>, <<"x86_64-apple-macos">>),
      Sdk("ios",   <<"/a">>, <<"17.0">>, <<"arm64-apple-ios">>) }

SeqsUpTo(S, n) == UNION { [1..k -> S] : k \in 0..n }

Tools == { <<"clang">>, <<"ld">> }
Tokens == { <<"-c">>, <<"-o">> }

Files ==
    { join(join(<<"/a">>, BIN), <<"clang">>),
      join(join(<<"/a">>, USR_BIN), <<"clang">>),
      join(join(<<"/b">>, USR_BIN), <<"clang">>),
      join(join(<<"/b">>, BIN), <<"ld">>) }

Hints == { None, Some("macos"), Some("ios") }

EnvNames == { "PATH", "LD_LIBRARY_PATH", "SDKROOT", "HOME" }

Environs ==
    { [n \in EnvNames |->
          CASE n = "PATH" -> p
            [] n = "LD_LIBRARY_PATH" -> l
            [] n = "SDKROOT" -> s
            [] OTHER -> Some(<<"/home/u">>)] :
      p \in { None, Some(<<"/usr/bin">>) },
      l \in { None, Some(<<"/opt/lib">>) },
      s \in { None, Some(<<"/old">>) } }

Arguments ==
    { <<>> } \cup { <<t>> \o rest : t \in Tools, rest \in SeqsUpTo(Tokens, MaxArgs - 1) }

Flags == [version : BOOLEAN, verbose : BOOLEAN, log : BOOLEAN,
          show_sdk_path : BOOLEAN, show_sdk_version : BOOLEAN,
          show_sdk_target_triple : BOOLEAN, show_sdk_toolchain_path : BOOLEAN,
          show_sdk_toolchain_version : BOOLEAN]

Xcrun(flags, sdk, find, arguments) ==
    [version |-> flags.version, verbose |-> flags.verbose, sdk |-> sdk,
     log |-> flags.log, find |-> find,
     show_sdk_path |-> flags.show_sdk_path,
     show_sdk_version |-> flags.show_sdk_version,
     show_sdk_target_triple |-> flags.show_sdk_target_triple,
     show_sdk_toolchain_path |-> flags.show_sdk_toolchain_path,
     show_sdk_toolchain_version |-> flags.show_sdk_toolchain_version,
     arguments |-> arguments]

----------------------------------------------------------------------------
(* The state after the configuration is loaded and the command line parsed. *)

DefaultEnviron ==
    [n \in EnvNames |->
        CASE n = "PATH" -> Some(<<"/usr/bin">>)
          [] n = "HOME" -> Some(<<"/home/u">>)
          [] OTHER -> None]

NoFlags ==
    [version |-> FALSE, verbose |-> FALSE, log |-> FALSE,
     show_sdk_path |-> FALSE, show_sdk_version |-> FALSE,
     show_sdk_target_triple |-> FALSE, show_sdk_toolchain_path |-> FALSE,
     show_sdk_toolchain_version |-> FALSE]

InitWith(SdkSeqs, FileSets, HintSet, FindSet, ArgSet, FlagSet, EnvSet) ==
    /\ sdks \in SdkSeqs
    /\ fs \in FileSets
    /\ environ \in EnvSet
    /\ \E flags \in FlagSet, sdk \in HintSet, find \in FindSet, arguments \in ArgSet :
          xcrun = Xcrun(flags, sdk, find, arguments)
    /\ pc = "version"
    /\ stdout = <<>>
    /\ stderr = <<>>
    /\ exit_code = None
    /\ find_sel = None
    /\ exec_sel = None
    /\ command = None
    /\ children = <<>>

Finds == { None } \cup { Some(t) : t \in Tools }

(* Resolution: every store, file system, hint, find request and argument list. *)
InitResolution ==
    InitWith(SeqsUpTo(SdkPool, MaxSdks), SUBSET Files, Hints, Finds, Arguments,
             { NoFlags }, { DefaultEnviron })

(* Dumps: every store and every combination of the version and show flags. *)
InitDumps ==
    InitWith(SeqsUpTo(SdkPool, MaxSdks), { {}, Files }, { None, Some("macos") },
             { None, Some(<<"clang">>) }, { <<>>, <<<<"clang">>>> },
             { f \in Flags : ~f.verbose /\ ~f.log }, { DefaultEnviron })

(* Execution: every argument list, ambient environment, log and verbose flag. *)
InitExecution ==
    InitWith(SeqsUpTo(SdkPool, 1), { {}, Files }, { None, Some("macos") },
             { None, Some(<<"clang">>) }, Arguments,
             { f \in Flags : /\ f.show_sdk_path = f.show_sdk_version
                             /\ ~f.show_sdk_target_triple
                             /\ ~f.show_sdk_toolchain_path
                             /\ ~f.show_sdk_toolchain_version
                             /\ ~f.version },
             Environs)

Init == InitResolution \/ InitDumps \/ InitExecution

----------------------------------------------------------------------------
(* main() *)

Println(line) == stdout' = Append(stdout, line)

Exit(code) ==
    /\ exit_code' = Some(code)
    /\ pc' = "done"

Panic(at) ==
    /\ stderr' = Append(stderr, panic_message(at))
    /\ Exit(PANIC_EXIT)

PrintVersion ==
    /\ pc = "version"
    /\ stdout' = IF xcrun.version
                 THEN Append(stdout, Line("version", <<"xcrun 1.0.0">>))
                 ELSE stdout
    /\ pc' = "show_sdk_path"
    /\ UNCHANGED <<sdks, fs, environ, xcrun, stderr, exit_code, find_sel, exec_sel,
                   command, children>>

ShowSdkPath ==
    /\ pc = "show_sdk_path"
    /\ stdout' = IF xcrun.show_sdk_path
                 THEN stdout \o println_each("show_sdk_path",
                                [i \in 1..Len(sdks) |-> sdks[i].path])
                 ELSE stdout
    /\ pc' = "show_sdk_version"
    /\ UNCHANGED <<sdks, fs, environ, xcrun, stderr, exit_code, find_sel, exec_sel,
                   command, children>>

ShowSdkVersion ==
    /\ pc = "show_sdk_version"
    /\ stdout' = IF xcrun.show_sdk_version
                 THEN stdout \o println_each("show_sdk_version",
                                [i \in 1..Len(sdks) |-> sdks[i].version])
                 ELSE stdout
    /\ pc' = "show_sdk_target_triple"
    /\ UNCHANGED <<sdks, fs, environ, xcrun, stderr, exit_code, find_sel, exec_sel,
                   command, children>>

ShowSdkTargetTriple ==
    /\ pc = "show_sdk_target_triple"
    /\ stdout' = IF xcrun.show_sdk_target_triple
                 THEN stdout \o println_each("show_sdk_target_triple",
                                [i \in 1..Len(sdks) |-> sdks[i].target_triple])
                 ELSE stdout
    /\ pc' = "show_sdk_toolchain_path"
    /\ UNCHANGED <<sdks, fs, environ, xcrun, stderr, exit_code, find_sel, exec_sel,
                   command, children>>

(* Mutant of ShowSdkToolchainPath: the target triple is printed. *)
ShowSdkToolchainPath_triple ==
    /\ pc = "show_sdk_toolchain_path"
    /\ stdout' = IF xcrun.show_sdk_toolchain_path
                 THEN stdout \o println_each("show_sdk_toolchain_path",
                                [i \in 1..Len(sdks) |-> sdks[i].target_triple])
                 ELSE stdout
    /\ pc' = "show_sdk_toolchain_version"
    /\ UNCHANGED <<sdks, fs, environ, xcrun, stderr, exit_code, find_sel, exec_sel,
                   command, children>>

ShowSdkToolchainPath ==
    /\ pc = "show_sdk_toolchain_path"
    /\ stdout' = IF xcrun.show_sdk_toolchain_path
                 THEN stdout \o println_each("show_sdk_toolchain_path",
                                [i \in 1..Len(sdks) |-> sdks[i].path])
                 ELSE stdout
    /\ pc' = "show_sdk_toolchain_version"
    /\ UNCHANGED <<sdks, fs, environ, xcrun, stderr, exit_code, find_sel, exec_sel,
                   command, children>>

ShowSdkToolchainVersion ==
    /\ pc = "show_sdk_toolchain_version"
    /\ stdout' = IF xcrun.show_sdk_toolchain_version
                 THEN stdout \o println_each("show_sdk_toolchain_version",
                                [i \in 1..Len(sdks) |-> sdks[i].version])
                 ELSE stdout
    /\ pc' = "find"
    /\ UNCHANGED <<sdks, fs, environ, xcrun, stderr, exit_code, find_sel, exec_sel,
                   command, children>>

(* Mutant of find_fail: the diagnostic is written but the process goes on. *)
find_fail_no_exit(tool) ==
    /\ stderr' = Append(stderr, tool_not_found(tool))
    /\ pc' = "exec"
    /\ UNCHANGED <<stdout, exit_code>>

(* eprintln!("xcrun: error: tool not found: {}", tool); std::process::exit(1) *)
find_fail(tool) ==
    /\ stderr' = Append(stderr, tool_not_found(tool))
    /\ Exit(1)
    /\ UNCHANGED stdout

(* if let Some(tool) = &xcrun.find { select; locate; print } *)
FindMode ==
    /\ pc = "find"
    /\ IF IsNone(xcrun.find)
       THEN /\ pc' = "exec"
            /\ UNCHANGED <<stdout, stderr, exit_code, find_sel>>
       ELSE LET tool == unwrap(xcrun.find)
                sdk == find_select(tool)
            IN  /\ find_sel' = Some(sdk)
                /\ IF IsNone(sdk)
                   THEN find_fail(tool)
                   ELSE LET tool_path == find_tool(sdks[unwrap(sdk)], tool)
                        IN  IF IsNone(tool_path)
                            THEN find_fail(tool)
                            ELSE /\ Println(Line("find", unwrap(tool_path)))
                                 /\ pc' = "exec"
                                 /\ UNCHANGED <<stderr, exit_code>>
    /\ UNCHANGED <<sdks, fs, environ, xcrun, exec_sel, command, children>>

(* The environment overrides and arguments given to Command. *)
command_envs(sdk, path) ==
    [n \in { "SDKROOT", "PATH", "LD_LIBRARY_PATH" } |->
        CASE n = "SDKROOT" -> sdk.path
          [] n = "PATH" -> sdk.path \o <<":">> \o path
          [] n = "LD_LIBRARY_PATH" ->
                sdk.path \o <<"/", "lib", ":">>
                    \o unwrap_or_default(environ["LD_LIBRARY_PATH"])]

command_args(arguments) == SubSeq(arguments, 2, Len(arguments))

(* if !xcrun.arguments.is_empty() { select; locate; build the Command } *)
BuildCommand ==
    /\ pc = "exec"
    /\ IF xcrun.arguments = <<>>
       THEN /\ pc' = "verbose"
            /\ UNCHANGED <<stderr, exit_code, exec_sel, command>>
       ELSE LET tool == xcrun.arguments[1]
                sdk == exec_select(tool)
            IN  /\ exec_sel' = Some(sdk)
                /\ IF IsNone(sdk)
                   THEN /\ Panic("unwrap on None: no SDK selected")
                        /\ UNCHANGED command
                   ELSE LET tool_path == find_tool(sdks[unwrap(sdk)], tool)
                        IN  IF IsNone(tool_path)
                            THEN /\ Panic("unwrap on None: find_tool")
                                 /\ UNCHANGED command
                            ELSE IF IsNone(environ["PATH"])
                            THEN /\ Panic("unwrap on Err: env::var(PATH)")
                                 /\ UNCHANGED command
                            ELSE /\ command' =
                                      Some([program |-> unwrap(tool_path),
                                            envs |-> command_envs(sdks[unwrap(sdk)],
                                                                  unwrap(environ["PATH"])),
                                            args |-> command_args(xcrun.arguments)])
                                 /\ pc' = "log"
                                 /\ UNCHANGED <<stderr, exit_code>>
    /\ UNCHANGED <<sdks, fs, environ, xcrun, stdout, find_sel, children>>

log_text(arguments) ==
    <<"xcrun: info: invoking command: ", "\n", "\t", "\"">>
        \o join_words(arguments) \o <<"\"">>

(* Mutant of LogInvocation: the line is printed under --verbose, not --log. *)
LogInvocation_verbose ==
    /\ pc = "log"
    /\ stdout' = IF xcrun.verbose
                 THEN Append(stdout, Line("log", log_text(xcrun.arguments)))
                 ELSE stdout
    /\ pc' = "spawn"
    /\ UNCHANGED <<sdks, fs, environ, xcrun, stderr, exit_code, find_sel, exec_sel,
                   command, children>>

(* if xcrun.log { println!(...) } *)
LogInvocation ==
    /\ pc = "log"
    /\ stdout' = IF xcrun.log
                 THEN Append(stdout, Line("log", log_text(xcrun.arguments)))
                 ELSE stdout
    /\ pc' = "spawn"
    /\ UNCHANGED <<sdks, fs, environ, xcrun, stderr, exit_code, find_sel, exec_sel,
                   command, children>>

(* The environment of a child: the parent's, with the Command's overrides. *)
child_env(envs) ==
    [n \in EnvNames |-> IF n \in DOMAIN envs THEN Some(envs[n]) ELSE environ[n]]

(* command.status(): the spawn; it fails when the OS cannot start the program. *)
Spawn ==
    /\ pc = "spawn"
    /\ \E ok \in BOOLEAN :
          IF ok
          THEN /\ children' = Append(children,
                      [program |-> unwrap(command).program,
                       env |-> child_env(unwrap(command).envs),
                       args |-> unwrap(command).args,
                       state |-> "running",
                       code |-> None])
               /\ pc' = "wait"
               /\ UNCHANGED <<stderr, exit_code>>
          ELSE /\ Panic("unwrap on Err: Command::status")
               /\ UNCHANGED children
    /\ UNCHANGED <<sdks, fs, environ, xcrun, stdout, find_sel, exec_sel, command>>

(* The child ends: with an exit code, or killed by a signal (no code). *)
ChildTerminates ==
    /\ pc = "wait"
    /\ \E i \in 1..Len(children) :
          /\ children[i].state = "running"
          /\ \E code \in { None } \cup { Some(c) : c \in 0..MaxExit } :
                children' = [children EXCEPT ![i].state = "terminated",
                                             ![i].code = code]
    /\ pc' = "status"
    /\ UNCHANGED <<sdks, fs, environ, xcrun, stdout, stderr, exit_code, find_sel,
                   exec_sel, command>>

(* Mutant of ExitWithStatus: the status is dropped and main goes on. *)
ExitWithStatus_falls_through ==
    /\ pc = "status"
    /\ pc' = "verbose"
    /\ UNCHANGED <<sdks, fs, environ, xcrun, stdout, stderr, exit_code, find_sel,
                   exec_sel, command, children>>

(* std::process::exit(status.code().unwrap()) *)
ExitWithStatus ==
    /\ pc = "status"
    /\ LET status == children[Len(children)]
       IN  IF IsSome(status.code)
           THEN /\ Exit(unwrap(status.code))
                /\ UNCHANGED stderr
           ELSE Panic("unwrap on None: ExitStatus::code")
    /\ UNCHANGED <<sdks, fs, environ, xcrun, stdout, find_sel, exec_sel, command,
                   children>>

(* if xcrun.verbose { println!("{:?}", xcrun) }, then main returns. *)
Verbose ==
    /\ pc = "verbose"
    /\ stdout' = IF xcrun.verbose
                 THEN Append(stdout, Line("verbose", <<"Xcrun { .. }">>))
                 ELSE stdout
    /\ Exit(0)
    /\ UNCHANGED <<sdks, fs, environ, xcrun, stderr, find_sel, exec_sel, command,
                   children>>

Next ==
    \/ PrintVersion
    \/ ShowSdkPath
    \/ ShowSdkVersion
    \/ ShowSdkTargetTriple
    \/ ShowSdkToolchainPath
    \/ ShowSdkToolchainVersion
    \/ FindMode
    \/ BuildCommand
    \/ LogInvocation
    \/ Spawn
    \/ ChildTerminates
    \/ ExitWithStatus
    \/ Verbose

Spec == Init /\ [][Next]_vars

----------------------------------------------------------------------------
(* Vocabulary of the properties *)

Prologue ==
    { "version", "show_sdk_path", "show_sdk_version", "show_sdk_target_triple",
      "show_sdk_toolchain_path", "show_sdk_toolchain_version" }

DumpFlags ==
    { "show_sdk_path", "show_sdk_version", "show_sdk_target_triple",
      "show_sdk_toolchain_path", "show_sdk_toolchain_version" }

(* The field a show flag reports. *)
DumpField(flag, sdk) ==
    CASE flag = "show_sdk_path" -> sdk.path
      [] flag = "show_sdk_version" -> sdk.version
      [] flag = "show_sdk_target_triple" -> sdk.target_triple
      [] flag = "show_sdk_toolchain_path" -> sdk.path
      [] flag = "show_sdk_toolchain_version" -> sdk.version

BinPath(sdk, tool) == sdk.path \o <<"/", "bin", "/">> \o tool
UsrBinPath(sdk, tool) == sdk.path \o <<"/", "usr", "/", "bin", "/">> \o tool
Contains(sdk, tool) == BinPath(sdk, tool) \in fs \/ UsrBinPath(sdk, tool) \in fs

(* r is the earliest index at which q holds, or None when q holds nowhere. *)
IsEarliest(r, q) ==
    /\ IsSome(r) => /\ unwrap(r) \in 1..Len(q)
                    /\ q[unwrap(r)]
                    /\ \A j \in 1..(unwrap(r) - 1) : ~q[j]
    /\ IsNone(r) => \A j \in 1..Len(q) : ~q[j]

(* r is what the location step must return for tool under sdk. *)
Located(r, sdk, tool) ==
    /\ BinPath(sdk, tool) \in fs => r = Some(BinPath(sdk, tool))
    /\ (BinPath(sdk, tool) \notin fs /\ UsrBinPath(sdk, tool) \in fs)
          => r = Some(UsrBinPath(sdk, tool))
    /\ IsNone(r) <=> (BinPath(sdk, tool) \notin fs /\ UsrBinPath(sdk, tool) \notin fs)

LinesOf(src) == SelectSeq(stdout, LAMBDA l : l.src = src)

FindTool == unwrap(xcrun.find)
ExecTool == xcrun.arguments[1]

FindActed == IsSome(find_sel)
ExecActed == IsSome(exec_sel)

FindSelected == FindActed /\ IsSome(unwrap(find_sel))
ExecSelected == ExecActed /\ IsSome(unwrap(exec_sel))

FindSdk == sdks[unwrap(unwrap(find_sel))]
ExecSdk == sdks[unwrap(unwrap(exec_sel))]

FindResolved == FindSelected /\ Contains(FindSdk, FindTool)
ExecResolved == ExecSelected /\ Contains(ExecSdk, ExecTool)

FindFailed == FindActed /\ ~FindResolved
ExecFailed == ExecActed /\ ~ExecResolved

NotFoundMessage(tool) ==
    [kind |-> "tool_not_found", text |-> <<"xcrun: error: tool not found: ">> \o tool]

SpawnPanicked ==
    /\ stderr # <<>>
    /\ stderr[Len(stderr)] = panic_message("unwrap on Err: Command::status")

----------------------------------------------------------------------------
(* C1: with no --sdk hint, the selection of find mode and of execution mode *)
(* returns the earliest descriptor, in store order, whose path holds the    *)
(* tool at bin/<tool> or usr/bin/<tool>, and none when no descriptor does.  *)
C1_NoHintSelectsFirstContaining ==
    IsNone(xcrun.sdk) =>
        /\ FindActed =>
              IsEarliest(unwrap(find_sel),
                         [i \in 1..Len(sdks) |-> Contains(sdks[i], FindTool)])
        /\ ExecActed =>
              IsEarliest(unwrap(exec_sel),
                         [i \in 1..Len(sdks) |-> Contains(sdks[i], ExecTool)])

(* Find mode skipped a descriptor without the tool; execution mode chose the *)
(* first of two descriptors that both hold the tool.                         *)
C1_Witness ==
    /\ IsNone(xcrun.sdk)
    /\ Len(sdks) = 2
    /\ FindActed /\ unwrap(find_sel) = Some(2)
    /\ ~Contains(sdks[1], FindTool)
    /\ ExecActed /\ unwrap(exec_sel) = Some(1)
    /\ Contains(sdks[1], ExecTool) /\ Contains(sdks[2], ExecTool)

(* C2: with an --sdk hint, selection returns the earliest descriptor whose  *)
(* name equals the hint, whether or not the tool exists under it, and none  *)
(* when no name equals the hint, whatever the descriptors contain.          *)
C2_HintSelectsFirstNamed ==
    IsSome(xcrun.sdk) =>
        /\ FindActed =>
              IsEarliest(unwrap(find_sel),
                         [i \in 1..Len(sdks) |-> sdks[i].name = unwrap(xcrun.sdk)])
        /\ ExecActed =>
              IsEarliest(unwrap(exec_sel),
                         [i \in 1..Len(sdks) |-> sdks[i].name = unwrap(xcrun.sdk)])

(* The hint chose the second descriptor, which lacks the tool, although the *)
(* first one, of another name, holds it.                                    *)
C2_Witness ==
    /\ IsSome(xcrun.sdk)
    /\ Len(sdks) = 2
    /\ FindActed /\ unwrap(find_sel) = Some(2)
    /\ ~Contains(sdks[2], FindTool)
    /\ Contains(sdks[1], FindTool)

(* The hint names no descriptor: selection fails although a descriptor      *)
(* holds the tool.                                                          *)
C2_WitnessNoFallback ==
    /\ IsSome(xcrun.sdk)
    /\ ExecActed /\ unwrap(exec_sel) = None
    /\ \E i \in 1..Len(sdks) : Contains(sdks[i], ExecTool)

(* C3: find_tool returns the bin path whenever it exists, the usr/bin path  *)
(* only when the bin path is absent and the usr/bin path exists, and no     *)
(* path exactly when both are absent; find mode prints what it returns.     *)
C3_FindToolProbesBinFirst ==
    /\ \A i \in 1..Len(sdks) : \A tool \in Tools :
          Located(find_tool(sdks[i], tool), sdks[i], tool)
    /\ (FindSelected /\ pc # "find") =>
          Located(IF LinesOf("find") = <<>> THEN None
                  ELSE Some(LinesOf("find")[1].text),
                  FindSdk, FindTool)
    /\ IsSome(command) =>
          Located(Some(unwrap(command).program), ExecSdk, ExecTool)

(* Both locations exist and find mode printed the bin path. *)
C3_Witness ==
    /\ FindSelected
    /\ BinPath(FindSdk, FindTool) \in fs
    /\ UsrBinPath(FindSdk, FindTool) \in fs
    /\ LinesOf("find") = <<Line("find", BinPath(FindSdk, FindTool))>>

(* C4: in a run with -f/--find set, no subprocess is ever spawned. *)
C4_FindNeverSpawns ==
    IsSome(xcrun.find) => children = <<>>

(* C5: when execution mode's selection or location fails, the process ends  *)
(* with exit code 1 and the 'tool not found' diagnostic on standard error,  *)
(* and spawns nothing.                                                      *)
C5_ExecFailureExitsOne ==
    ExecFailed =>
        /\ pc = "done"
        /\ exit_code = Some(1)
        /\ stderr = <<NotFoundMessage(ExecTool)>>
        /\ children = <<>>

(* C6: in find mode a selection failure and a location failure both end the *)
(* process with exit code 1 and the same 'tool not found' diagnostic, and   *)
(* print no path; when both succeed exactly one path is printed, the one    *)
(* find_tool returns for the selected SDK.                                  *)
C6_FindModeOutcome ==
    /\ FindFailed =>
          /\ pc = "done"
          /\ exit_code = Some(1)
          /\ stderr = <<NotFoundMessage(FindTool)>>
          /\ LinesOf("find") = <<>>
    /\ FindResolved =>
          /\ LinesOf("find") = <<Line("find", unwrap(find_tool(FindSdk, FindTool)))>>
          /\ \A k \in 1..Len(stderr) : stderr[k].kind # "tool_not_found"

(* The hinted SDK was selected and the tool is at neither location. *)
C6_Witness ==
    /\ FindSelected
    /\ ~Contains(FindSdk, FindTool)
    /\ exit_code = Some(1)
    /\ stderr = <<NotFoundMessage(FindTool)>>

(* C7 as stated: after a successful resolution in execution mode exactly   *)
(* one subprocess is spawned, the parent waits for it, exits with the       *)
(* child's code when the child ends normally, and does nothing after the    *)
(* child has ended.                                                         *)
C7_ExactlyOneSpawned ==
    /\ (ExecResolved /\ pc = "done") => Len(children) = 1
    /\ \A k \in 1..Len(children) :
          /\ children[k].state = "running" => exit_code = None
          /\ children[k].state = "terminated" =>
                /\ pc \in { "status", "done" }
                /\ LinesOf("verbose") = <<>>
                /\ (pc = "done" /\ IsSome(children[k].code))
                      => exit_code = children[k].code

(* C7, amended: after a successful resolution in execution mode at most one *)
(* subprocess is spawned: one, unless the ambient PATH is unset or the      *)
(* operating system cannot start the program, when the parent panics (exit  *)
(* status 101) with nothing spawned.  While the child runs the parent has   *)
(* not exited; when the child ends normally with code c the parent exits    *)
(* with c; once the child has ended the parent only exits, and never prints *)
(* the --verbose line.                                                      *)
C7_AtMostOneSpawnedExitPropagated ==
    /\ Len(children) <= 1
    /\ children # <<>> => ExecResolved
    /\ (ExecResolved /\ pc = "done") =>
          \/ Len(children) = 1
          \/ /\ children = <<>>
             /\ exit_code = Some(PANIC_EXIT)
             /\ IsNone(environ["PATH"]) \/ SpawnPanicked
    /\ (ExecResolved /\ pc = "done" /\ IsSome(environ["PATH"]) /\ ~SpawnPanicked)
          => Len(children) = 1
    /\ \A k \in 1..Len(children) :
          /\ children[k].state = "running" => (exit_code = None /\ pc = "wait")
          /\ children[k].state = "terminated" =>
                /\ pc \in { "status", "done" }
                /\ LinesOf("verbose") = <<>>
                /\ (pc = "done" /\ IsSome(children[k].code))
                      => exit_code = children[k].code

(* With --verbose set the child ended with the largest exit code and the    *)
(* parent exited with it.                                                   *)
C7_Witness ==
    /\ xcrun.verbose
    /\ Len(children) = 1
    /\ children[1].state = "terminated"
    /\ children[1].code = Some(MaxExit)
    /\ pc = "done"
    /\ exit_code = Some(MaxExit)

(* C8: the spawned tool's environment is the ambient one with SDKROOT set   *)
(* to the SDK's path, PATH to '<path>:<ambient PATH>' and LD_LIBRARY_PATH   *)
(* to '<path>/lib:<ambient>' when the ambient variable is set and to        *)
(* '<path>/lib' when it is not; the arguments are the free tokens after the *)
(* first, in order.                                                         *)
C8_ChildEnvironment ==
    \A k \in 1..Len(children) :
        LET child == children[k]
            lib == ExecSdk.path \o <<"/", "lib">>
        IN  /\ child.env["SDKROOT"] = Some(ExecSdk.path)
            /\ child.env["PATH"] =
                  Some(ExecSdk.path \o <<":">> \o unwrap(environ["PATH"]))
            /\ child.env["LD_LIBRARY_PATH"] =
                  IF IsSome(environ["LD_LIBRARY_PATH"])
                  THEN Some(lib \o <<":">> \o unwrap(environ["LD_LIBRARY_PATH"]))
                  ELSE Some(lib)
            /\ \A n \in EnvNames \ { "SDKROOT", "PATH", "LD_LIBRARY_PATH" } :
                  child.env[n] = environ[n]
            /\ child.args = Tail(xcrun.arguments)

(* C9: each show flag that is set prints one line per configured SDK, in    *)
(* store order, carrying its field (toolchain_path the path,                *)
(* toolchain_version the version); a flag that is not set prints nothing;   *)
(* the lines depend on neither the hint nor the file system, and they are   *)
(* all written before find mode or execution mode prints, fails or exits.   *)
C9_DumpsWholeStoreFirst ==
    /\ pc \notin Prologue =>
          \A flag \in DumpFlags :
              LinesOf(flag) =
                  IF xcrun[flag]
                  THEN [i \in 1..Len(sdks) |-> Line(flag, DumpField(flag, sdks[i]))]
                  ELSE <<>>
    /\ pc \in Prologue =>
          /\ stderr = <<>>
          /\ exit_code = None
          /\ ~FindActed /\ ~ExecActed
    /\ \A i \in 1..Len(stdout) : \A j \in (i + 1)..Len(stdout) :
          stdout[j].src \in DumpFlags => stdout[i].src \in DumpFlags \cup { "version" }

(* Two SDKs, a hint, an empty file system: two flags dumped both SDKs and   *)
(* find mode then failed.                                                   *)
C9_Witness ==
    /\ Len(sdks) = 2
    /\ sdks[1] # sdks[2]
    /\ IsSome(xcrun.sdk)
    /\ fs = {}
    /\ xcrun.show_sdk_target_triple /\ xcrun.show_sdk_toolchain_version
    /\ ~xcrun.show_sdk_path
    /\ Len(stdout) = 4
    /\ FindFailed
    /\ exit_code = Some(1)

====
